---------------------------- MODULE Spec2Model ----------------------------
(***************************************************************************)
(* Model of graphql/schema/remote.go: the validation of a @custom graphql  *)
(* operation against the introspected schema of the remote endpoint.       *)
(*                                                                         *)
(* validateRemoteGraphql is a sequential procedure; it is modelled as a    *)
(* state machine with one action per stage and per loop iteration.  Every  *)
(* `range` over a Go map is a nondeterministic choice of the next key; a   *)
(* `range` over a slice follows the slice's order.  expandArgRecursively   *)
(* is modelled with an explicit call stack.                                *)
(***************************************************************************)
EXTENDS Integers, Sequences, FiniteSets, TLC

VARIABLES
    metadata,               \* *remoteGraphqlMetadata: the argument of the call
    remote,                 \* what the endpoint at metadata.url answers
    pc,                     \* position of the call in validateRemoteGraphql
    err,                    \* the value returned by the call (NoErr before it returns)
    remoteQueryTypename,    \* local variable of validateRemoteGraphql
    introspectedRemoteQuery,\* local variable: *GqlField or NilField
    givenQryArgDefs,        \* local variable: map arg name -> *ast.ArgumentDefinition
    givenQryArgVals,        \* local variable: map arg name -> variable text
    remoteQryArgDefs,       \* local variable: map arg name -> Args
    remoteQryRequiredArgs,  \* local variable: slice of arg names
    pendingKeys,            \* keys the running `range` over a map has not yet produced
    expandedTypes,          \* expandArgParams.expandedTypes
    typesToFields,          \* expandArgParams.typesToFields
    stack,                  \* call stack of expandArgRecursively
    expandedRemoteTypes,    \* local variable: result of expandArgs (NoMap before)
    stages,                 \* history: the stages evaluated by the call, in order
    lookups,                \* history: type names searched for in the snapshot
    expansions,             \* history: type definitions expanded, in order
    compared,               \* history: type names compared against the local schema
    calls,                  \* history: number of calls started on this input
    prevErr                 \* history: what the previous call on this input returned

input == <<metadata, remote>>
locals == <<remoteQueryTypename, introspectedRemoteQuery, givenQryArgDefs,
            givenQryArgVals, remoteQryArgDefs, remoteQryRequiredArgs>>
expander == <<expandedTypes, typesToFields, stack>>
history == <<stages, lookups, expansions, compared>>
vars == <<metadata, remote, pc, err, remoteQueryTypename, introspectedRemoteQuery,
          givenQryArgDefs, givenQryArgVals, remoteQryArgDefs, remoteQryRequiredArgs,
          pendingKeys, expandedTypes, typesToFields, stack, expandedRemoteTypes,
          stages, lookups, expansions, compared, calls, prevErr>>

(***************************************************************************)
(* Bounds of the model.                                                    *)
(***************************************************************************)
\* An input differs from the valid base input in at most this many dimensions.
MaxDeviations == 2
\* validateRemoteGraphql is called at most this many times on one input.
MaxCalls == 2

(***************************************************************************)
(* Types of the introspection response.                                    *)
(***************************************************************************)
\* A nil *GqlType.
NilType == [Kind |-> "nil"]

\* GqlType values: a named type, and the LIST and NON_NULL wrappers, which
\* carry no name.
Named(kind, name) == [Kind |-> kind, Name |-> name, OfType |-> NilType]
ListOf(t) == [Kind |-> "LIST", Name |-> "", OfType |-> t]
NonNullOf(t) == [Kind |-> "NON_NULL", Name |-> "", OfType |-> t]

\* func (t *GqlType) String() string
RECURSIVE GqlTypeString(_)
GqlTypeString(t) ==
    IF t = NilType THEN ""
    ELSE CASE t.Kind = "LIST" -> "[" \o GqlTypeString(t.OfType) \o "]"
           [] t.Kind = "NON_NULL" -> GqlTypeString(t.OfType) \o "!"
           [] OTHER -> t.Name

\* func (t *GqlType) NamedType() string
RECURSIVE NamedType(_)
NamedType(t) ==
    IF t.Name # "" THEN t.Name ELSE NamedType(t.OfType)

\* Args and GqlField values.
Arg(name, type, default) == [Name |-> name, Type |-> type, DefaultValue |-> default]
GqlField(name, args, type) == [Name |-> name, Args |-> args, Type |-> type]
\* A Types value.
TypeDef(kind, name, fields, inputFields) ==
    [Kind |-> kind, Name |-> name, Fields |-> fields, InputFields |-> inputFields]

\* A nil *GqlField.
NilField == [Name |-> "nil"]

(***************************************************************************)
(* Types of the local schema (gqlparser's ast package).                    *)
(***************************************************************************)
\* A nil *ast.Type.
NilAstType == [NamedType |-> "nil"]
AstNamed(name, nonNull) == [NamedType |-> name, Elem |-> NilAstType, NonNull |-> nonNull]
AstList(elem, nonNull) == [NamedType |-> "", Elem |-> elem, NonNull |-> nonNull]

\* func (t *ast.Type) String() string
RECURSIVE AstTypeString(_)
AstTypeString(t) ==
    LET nn == IF t.NonNull THEN "!" ELSE ""
    IN  IF t.NamedType # "" THEN t.NamedType \o nn
        ELSE "[" \o AstTypeString(t.Elem) \o "]" \o nn

\* A nil *ast.ArgumentDefinition and a nil *ast.FieldDefinition.
NilArgDef == [Name |-> "nil"]
NilFieldDef == [Name |-> "nil"]
AstArgDef(name, type) == [Name |-> name, Type |-> type]
AstFieldDef(name, args, type) == [Name |-> name, Arguments |-> args, Type |-> type]
AstDefinition(name, fields) == [Name |-> name, Fields |-> fields]

\* func (l FieldList) ForName(name string) *FieldDefinition
ForName(fields, name) ==
    IF \E i \in 1..Len(fields) : fields[i].Name = name
    THEN fields[CHOOSE i \in 1..Len(fields) :
                    /\ fields[i].Name = name
                    /\ \A j \in 1..(i-1) : fields[j].Name # name]
    ELSE NilFieldDef

\* The value of an argument of the selection: a variable.  Value.String()
\* renders a variable with its "$".
Variable(name) == [Kind |-> "Variable", Raw |-> name]
ValueString(v) == "$" \o v.Raw
AstArgument(name, value) == [Name |-> name, Value |-> value]

\* The GraphQL scalars, which the expansion does not follow.
graphqlScalarType == {"Int", "Float", "String", "Boolean", "ID"}

\* The key under which the return type joins the remote argument definitions.
returnType == "\\graphql-return"

\* A finite map as a function, and its update m[k] = v.
EmptyMap == <<>>
Put(m, k, v) == [x \in (DOMAIN m) \cup {k} |-> IF x = k THEN v ELSE m[x]]


(***************************************************************************)
(* The inputs of a call.  They are built from a valid base input (the      *)
(* operation getPost(id: $id) on a field getPost(id: ID!, tok: String!):   *)
(* Post of the local Query type, against a remote schema and a local       *)
(* schema that mirror each other) by replacing the value of at most        *)
(* MaxDeviations of its dimensions by one of the listed alternatives.      *)
(* Option 1 of every dimension is the base value.                          *)
(***************************************************************************)
tID == Named("SCALAR", "ID")
tString == Named("SCALAR", "String")
tPost == Named("OBJECT", "Post")
tAuthor == Named("OBJECT", "Author")
tPostFilter == Named("INPUT_OBJECT", "PostFilter")
tAuthorFilter == Named("INPUT_OBJECT", "AuthorFilter")
tGhostInput == Named("INPUT_OBJECT", "GhostInput")

\* Whether the introspection request fails (introspectRemoteSchema returns an error).
IntrospectOptions == <<FALSE, TRUE>>

\* graphqlOpDef.Operation.
OperationOptions == <<"query", "mutation", "subscription">>

\* parentType.Name.
ParentTypeOptions == <<"Query", "Mutation", "Post">>

\* The name of the top-level selection of the operation.
QueryNameOptions == <<"getPost", "getUser">>

\* The return type of the remote field, and the declared type of the local field.
ReturnTypeOptions ==
    << <<tPost, AstNamed("Post", FALSE)>>,
       <<ListOf(tPost), AstNamed("Post", FALSE)>>,
       <<tString, AstNamed("String", FALSE)>>,
       <<NonNullOf(ListOf(NonNullOf(tString))), AstList(AstNamed("String", TRUE), TRUE)>>,
       <<NonNullOf(tPost), AstNamed("Post", FALSE)>> >>

\* The arguments of the top-level selection.
GivenArgOptions ==
    << <<AstArgument("id", Variable("id"))>>,
       <<>>,
       <<AstArgument("id", Variable("id")), AstArgument("token", Variable("tok"))>>,
       <<AstArgument("id", Variable("uid"))>>,
       <<AstArgument("id", Variable("tok"))>>,
       <<AstArgument("bogus", Variable("uid")), AstArgument("junk", Variable("tok"))>>,
       <<AstArgument("id", Variable("uid")), AstArgument("token", Variable("id"))>> >>

\* The arguments declared by the local parent field.
LocalArgDefOptions ==
    << <<AstArgDef("id", AstNamed("ID", TRUE)), AstArgDef("tok", AstNamed("String", TRUE))>>,
       <<AstArgDef("id", AstNamed("ID", FALSE)), AstArgDef("tok", AstNamed("String", TRUE))>>,
       <<>> >>

\* The arguments of the remote field.
RemoteArgOptions ==
    << <<Arg("id", NonNullOf(tID), "null")>>,
       <<Arg("id", NonNullOf(tID), "null"), Arg("token", NonNullOf(tString), "null")>>,
       <<Arg("id", NonNullOf(tID), "null"), Arg("token", NonNullOf(tString), "secret")>>,
       <<Arg("id", NonNullOf(tID), "null"), Arg("filter", tPostFilter, "null")>>,
       <<Arg("id", NonNullOf(tID), "null"), Arg("filter", tGhostInput, "null")>>,
       <<Arg("id", NonNullOf(tID), "null"), Arg("token", NonNullOf(tString), "null"),
         Arg("key", NonNullOf(tString), "null")>> >>

\* Type definitions of remote snapshots.
RemoteScalars ==
    << TypeDef("SCALAR", "ID", <<>>, <<>>), TypeDef("SCALAR", "String", <<>>, <<>>) >>
RemotePost(titleType, last) ==
    TypeDef("OBJECT", "Post",
            << GqlField("id", <<>>, NonNullOf(tID)), GqlField("title", <<>>, titleType),
               last >>, <<>>)
RemoteAuthor ==
    TypeDef("OBJECT", "Author",
            << GqlField("name", <<>>, tString), GqlField("posts", <<>>, ListOf(tPost)) >>,
            <<>>)
RemotePostFilter ==
    TypeDef("INPUT_OBJECT", "PostFilter", <<>>,
            << GqlField("title", <<>>, tString),
               GqlField("tags", <<>>, ListOf(NonNullOf(tString))),
               GqlField("author", <<>>, tAuthorFilter) >>)
RemoteAuthorFilter ==
    TypeDef("INPUT_OBJECT", "AuthorFilter", <<>>,
            << GqlField("name", <<>>, NonNullOf(tString)) >>)

\* The type definitions of the remote snapshot other than the root types.
SnapshotOptions ==
    << <<RemotePost(tString, GqlField("author", <<>>, tAuthor)), RemoteAuthor,
         RemotePostFilter, RemoteAuthorFilter>> \o RemoteScalars,
       <<RemotePost(tString, GqlField("parent", <<>>, tPost)), RemoteAuthor,
         RemotePostFilter, RemoteAuthorFilter>> \o RemoteScalars,
       <<RemotePost(tString, GqlField("author", <<>>, tAuthor)), RemotePostFilter,
         RemoteAuthorFilter>> \o RemoteScalars,
       <<RemotePost(tString, GqlField("author", <<>>, tAuthor)), RemoteAuthor,
         RemotePostFilter, RemoteAuthorFilter>>,
       <<RemotePost(NonNullOf(tString), GqlField("author", <<>>, tAuthor)), RemoteAuthor,
         RemotePostFilter, RemoteAuthorFilter>> \o RemoteScalars >>

\* Type definitions of local schemas.
LocalScalars == {AstDefinition("ID", <<>>), AstDefinition("String", <<>>)}
LocalPost(titleNonNull, withAuthor) ==
    AstDefinition("Post",
        << AstFieldDef("id", <<>>, AstNamed("ID", TRUE)),
           AstFieldDef("title", <<>>, AstNamed("String", titleNonNull)),
           AstFieldDef("parent", <<>>, AstNamed("Post", FALSE)) >>
        \o (IF withAuthor THEN <<AstFieldDef("author", <<>>, AstNamed("Author", FALSE))>>
            ELSE <<>>))
LocalAuthor ==
    AstDefinition("Author",
        << AstFieldDef("name", <<>>, AstNamed("String", FALSE)),
           AstFieldDef("posts", <<>>, AstList(AstNamed("Post", FALSE), FALSE)) >>)
LocalPostFilter ==
    AstDefinition("PostFilter",
        << AstFieldDef("title", <<>>, AstNamed("String", FALSE)),
           AstFieldDef("tags", <<>>, AstList(AstNamed("String", TRUE), FALSE)),
           AstFieldDef("author", <<>>, AstNamed("AuthorFilter", FALSE)) >>)
LocalAuthorFilter ==
    AstDefinition("AuthorFilter", << AstFieldDef("name", <<>>, AstNamed("String", TRUE)) >>)
LocalInputs == {LocalPostFilter, LocalAuthorFilter}

\* schema.Types: a set of definitions as the map from their names.
SchemaTypes(defs) ==
    [n \in {d.Name : d \in defs} |-> CHOOSE d \in defs : d.Name = n]

\* The types of the local schema.
LocalSchemaOptions ==
    << SchemaTypes({LocalPost(FALSE, TRUE), LocalAuthor} \cup LocalInputs \cup LocalScalars),
       SchemaTypes({LocalPost(FALSE, FALSE), LocalAuthor} \cup LocalInputs \cup LocalScalars),
       SchemaTypes({LocalPost(FALSE, TRUE), LocalPostFilter} \cup LocalScalars),
       SchemaTypes({LocalPost(TRUE, TRUE)} \cup LocalScalars),
       SchemaTypes({LocalPost(FALSE, TRUE), LocalAuthor} \cup LocalInputs) >>

Dims == {"intro", "op", "parent", "query", "ret", "given", "decl", "rargs", "snap", "local"}
NOpts ==
    [intro |-> Len(IntrospectOptions), op |-> Len(OperationOptions),
     parent |-> Len(ParentTypeOptions), query |-> Len(QueryNameOptions),
     ret |-> Len(ReturnTypeOptions), given |-> Len(GivenArgOptions),
     decl |-> Len(LocalArgDefOptions), rargs |-> Len(RemoteArgOptions),
     snap |-> Len(SnapshotOptions), local |-> Len(LocalSchemaOptions)]
MaxOpts == CHOOSE n \in {NOpts[d] : d \in Dims} : \A d \in Dims : NOpts[d] <= n

\* The choices of one option per dimension that leave the base in at most
\* MaxDeviations dimensions.
Selections ==
    UNION { { [d \in Dims |-> IF d \in D THEN f[d] ELSE 1] :
                f \in {g \in [D -> 2..MaxOpts] : \A d \in D : g[d] <= NOpts[d]} } :
            D \in {E \in SUBSET Dims : Cardinality(E) <= MaxDeviations} }

\* The remoteGraphqlMetadata of a selection.
MetadataOf(sel) ==
    [parentType |-> [Name |-> ParentTypeOptions[sel.parent]],
     parentField |-> AstFieldDef("getPost", LocalArgDefOptions[sel.decl],
                                 ReturnTypeOptions[sel.ret][2]),
     graphqlOpDef |->
        [Operation |-> OperationOptions[sel.op],
         SelectionSet |-> << [Name |-> QueryNameOptions[sel.query],
                              Arguments |-> GivenArgOptions[sel.given]] >>],
     url |-> "http://remote/graphql",
     schema |-> [Types |-> LocalSchemaOptions[sel.local]]]

\* The answer of the endpoint of a selection: an error, or an IntrospectedSchema.
RemoteOf(sel) ==
    LET rootFields ==
            << GqlField("listPosts", <<>>, ListOf(tPost)),
               GqlField("getPost", RemoteArgOptions[sel.rargs], ReturnTypeOptions[sel.ret][1]) >>
    IN  [Err |-> IntrospectOptions[sel.intro],
         Data |-> [Schema |->
            [QueryType |-> [Name |-> "Query"],
             MutationType |-> [Name |-> "Mutation"],
             Types |-> << TypeDef("OBJECT", "Query", rootFields, <<>>),
                          TypeDef("OBJECT", "Mutation", rootFields, <<>>) >>
                       \o SnapshotOptions[sel.snap]]]]

(***************************************************************************)
(* Errors.  validateRemoteGraphql returns nil or an error made of a        *)
(* message; an error is modelled by the kind of its message and the values *)
(* the message is formatted with.                                          *)
(***************************************************************************)
\* The call has not returned.
NoErr == [kind |-> "none"]
\* return nil
NilErr == [kind |-> "nil"]
Error(kind, op, query, type, name, expected, got) ==
    [kind |-> kind, op |-> op, query |-> query, type |-> type, name |-> name,
     expected |-> expected, got |-> got]

\* A nil map[string][]GqlField, which expandArgs returns with an error.
NilMap == [nil |-> TRUE]

(***************************************************************************)
(* The functions validateRemoteGraphql calls.                              *)
(***************************************************************************)
operationType == metadata.graphqlOpDef.Operation
givenQuery == metadata.graphqlOpDef.SelectionSet[1]
Types == remote.Data.Schema.Types

\* The loop that searches the types named as the remote root type for the
\* field with the name of the given query: the first one found, or nil.
FindRemoteQuery(types, typename, name) ==
    LET has(i) == \E j \in 1..Len(types[i].Fields) : types[i].Fields[j].Name = name
        hits == {i \in 1..Len(types) : types[i].Name = typename /\ has(i)}
    IN  IF hits = {} THEN NilField
        ELSE LET typ == types[CHOOSE i \in hits : \A k \in hits : i <= k]
                 found == {j \in 1..Len(typ.Fields) : typ.Fields[j].Name = name}
             IN  typ.Fields[CHOOSE j \in found : \A k \in found : j <= k]

\* func getFieldArgDefsAsMap(fieldDef *ast.FieldDefinition)
getFieldArgDefsAsMap(fieldDef) ==
    LET args == fieldDef.Arguments
    IN  [n \in {args[i].Name : i \in 1..Len(args)} |->
            args[CHOOSE i \in 1..Len(args) :
                    /\ args[i].Name = n
                    /\ \A j \in (i+1)..Len(args) : args[j].Name # n]]

\* A lookup in a map of pointers: nil for an absent key.
Lookup(m, k, nil) == IF k \in DOMAIN m THEN m[k] ELSE nil

\* The last argument of a list with the given name (a later assignment to a
\* map entry replaces an earlier one).
LastNamed(args, n) ==
    args[CHOOSE i \in 1..Len(args) :
            /\ args[i].Name = n
            /\ \A j \in (i+1)..Len(args) : args[j].Name # n]

\* func getGivenQueryArgsAsMap(givenQuery, parentField, parentType): the maps
\* argDefMap and argValMap.
getGivenQueryArgsAsMap(query, parentField, parentType) ==
    IF parentType.Name = "Query" \/ parentType.Name = "Mutation"
    THEN LET parentFieldArgMap == getFieldArgDefsAsMap(parentField)
             names == {query.Arguments[i].Name : i \in 1..Len(query.Arguments)}
             varName(n) == ValueString(LastNamed(query.Arguments, n).Value)
         IN  [defs |-> [n \in names |->
                            Lookup(parentFieldArgMap, Tail(varName(n)), NilArgDef)],
              vals |-> [n \in names |-> varName(n)]]
    ELSE [defs |-> EmptyMap, vals |-> EmptyMap]

\* func getRemoteQueryArgsAsMap(remoteQuery *GqlField): the map argDefMap and
\* the slice requiredArgs.
getRemoteQueryArgsAsMap(remoteQuery) ==
    LET args == remoteQuery.Args
    IN  [defs |-> [n \in {args[i].Name : i \in 1..Len(args)} |-> LastNamed(args, n)],
         required |-> LET nonNull == SelectSeq(args, LAMBDA a : a.Type.Kind = "NON_NULL")
                      IN  [i \in 1..Len(nonNull) |-> nonNull[i].Name]]

\* CheckGivenArg with the test of the local definition before the test of the
\* remote one.
CheckGivenArgNilFirst(givenArgName) ==
    IF givenQryArgDefs[givenArgName] = NilArgDef
    THEN Error("MissingVariable", operationType, givenQuery.Name, "",
               givenQryArgVals[givenArgName], "", "")
    ELSE IF givenArgName \notin DOMAIN remoteQryArgDefs
    THEN Error("ArgNotInRemote", operationType, givenQuery.Name, "", givenArgName, "", "")
    ELSE LET expectedArgType == GqlTypeString(remoteQryArgDefs[givenArgName].Type)
             gotArgType == AstTypeString(givenQryArgDefs[givenArgName].Type)
         IN  IF expectedArgType # gotArgType
             THEN Error("ArgTypeMismatch", operationType, givenQuery.Name, "",
                        givenQryArgVals[givenArgName], expectedArgType, gotArgType)
             ELSE NilErr

\* The check of one argument of the given query against the remote query:
\* the error it returns, or NilErr.
CheckGivenArg(givenArgName) ==
    IF givenArgName \notin DOMAIN remoteQryArgDefs
    THEN Error("ArgNotInRemote", operationType, givenQuery.Name, "", givenArgName, "", "")
    ELSE IF givenQryArgDefs[givenArgName] = NilArgDef
    THEN Error("MissingVariable", operationType, givenQuery.Name, "",
               givenQryArgVals[givenArgName], "", "")
    ELSE LET expectedArgType == GqlTypeString(remoteQryArgDefs[givenArgName].Type)
             gotArgType == AstTypeString(givenQryArgDefs[givenArgName].Type)
         IN  IF expectedArgType # gotArgType
             THEN Error("ArgTypeMismatch", operationType, givenQuery.Name, "",
                        givenQryArgVals[givenArgName], expectedArgType, gotArgType)
             ELSE NilErr

\* The loop over the required remote arguments: the error of the first one
\* that the given arguments lack, or NilErr.
CheckRequiredArgs(required, givenVals) ==
    LET missing == {i \in 1..Len(required) : required[i] \notin DOMAIN givenVals}
    IN  IF missing = {} THEN NilErr
        ELSE Error("RequiredArgMissing", operationType, givenQuery.Name, "",
                   required[CHOOSE i \in missing : \A j \in missing : i <= j], "", "")

\* CheckExpandedType without the comparison of the types of the fields.
CheckExpandedTypeNamesOnly(typeName, fields) ==
    IF typeName \notin DOMAIN metadata.schema.Types
    THEN Error("LocalTypeNotFound", "", "", typeName, "", "", "")
    ELSE LET localType == metadata.schema.Types[typeName]
             bad == {i \in 1..Len(fields) :
                        ForName(localType.Fields, fields[i].Name) = NilFieldDef}
         IN  IF bad = {} THEN NilErr
             ELSE Error("LocalFieldNotFound", "", "", localType.Name,
                        fields[CHOOSE i \in bad : \A j \in bad : i <= j].Name, "", "")

\* The check of one expanded remote type against the local schema: the
\* error it returns, or NilErr.
CheckExpandedType(typeName, fields) ==
    IF typeName \notin DOMAIN metadata.schema.Types
    THEN Error("LocalTypeNotFound", "", "", typeName, "", "", "")
    ELSE LET localType == metadata.schema.Types[typeName]
             fieldErr(field) ==
                LET localField == ForName(localType.Fields, field.Name)
                IN  IF localField = NilFieldDef
                    THEN Error("LocalFieldNotFound", "", "", localType.Name, field.Name, "", "")
                    ELSE IF AstTypeString(localField.Type) # GqlTypeString(field.Type)
                    THEN Error("FieldTypeMismatch", "", "", typeName, field.Name,
                               GqlTypeString(field.Type), AstTypeString(localField.Type))
                    ELSE NilErr
             bad == {i \in 1..Len(fields) : fieldErr(fields[i]) # NilErr}
         IN  IF bad = {} THEN NilErr
             ELSE fieldErr(fields[CHOOSE i \in bad : \A j \in bad : i <= j])

(***************************************************************************)
(* validateRemoteGraphql.                                                  *)
(***************************************************************************)
Return(e) ==
    /\ err' = e
    /\ pc' = "done"

\* remoteIntrospection, err := introspectRemoteSchema(metadata.url)
Introspect ==
    /\ pc = "introspect"
    /\ stages' = Append(stages, "introspection")
    /\ IF remote.Err
       THEN Return(Error("TransportError", "", "", "", "", "", ""))
       ELSE pc' = "operation" /\ err' = err
    /\ UNCHANGED <<input, locals, pendingKeys, expander, expandedRemoteTypes,
                   lookups, expansions, compared, calls, prevErr>>

\* switch operationType
ResolveRoot ==
    /\ pc = "operation"
    /\ stages' = Append(stages, "operation")
    /\ CASE operationType = "query" ->
              /\ remoteQueryTypename' = remote.Data.Schema.QueryType.Name
              /\ pc' = "lookup" /\ err' = err
         [] operationType = "mutation" ->
              /\ remoteQueryTypename' = remote.Data.Schema.MutationType.Name
              /\ pc' = "lookup" /\ err' = err
         [] OTHER ->
              /\ Return(Error("UnsupportedOperationKind", operationType, "", "", "", "", ""))
              /\ UNCHANGED remoteQueryTypename
    /\ UNCHANGED <<input, introspectedRemoteQuery, givenQryArgDefs, givenQryArgVals,
                   remoteQryArgDefs, remoteQryRequiredArgs, pendingKeys, expander,
                   expandedRemoteTypes, lookups, expansions, compared, calls, prevErr>>

\* The search of the given query in the remote schema.
LookupField ==
    /\ pc = "lookup"
    /\ stages' = Append(stages, "lookup")
    /\ introspectedRemoteQuery' = FindRemoteQuery(Types, remoteQueryTypename, givenQuery.Name)
    /\ IF introspectedRemoteQuery' = NilField
       THEN Return(Error("RemoteFieldNotFound", operationType, givenQuery.Name, "", "", "", ""))
       ELSE pc' = "returntype" /\ err' = err
    /\ UNCHANGED <<input, remoteQueryTypename, givenQryArgDefs, givenQryArgVals,
                   remoteQryArgDefs, remoteQryRequiredArgs, pendingKeys, expander,
                   expandedRemoteTypes, lookups, expansions, compared, calls, prevErr>>

\* ReturnTypeErr with the two types of the message exchanged.
ReturnTypeErrSwapped(remoteQuery, parentField) ==
    LET expectedReturnType == AstTypeString(parentField.Type)
        gotReturnType == GqlTypeString(remoteQuery.Type)
    IN  IF expectedReturnType # gotReturnType
        THEN Error("ReturnTypeMismatch", operationType, givenQuery.Name, "", "",
                   expectedReturnType, gotReturnType)
        ELSE NilErr

\* The error of the return type check, or NilErr.
ReturnTypeErr(remoteQuery, parentField) ==
    LET expectedReturnType == GqlTypeString(remoteQuery.Type)
        gotReturnType == AstTypeString(parentField.Type)
    IN  IF expectedReturnType # gotReturnType
        THEN Error("ReturnTypeMismatch", operationType, givenQuery.Name, "", "",
                   expectedReturnType, gotReturnType)
        ELSE NilErr

\* The return type check.
CheckReturnType ==
    /\ pc = "returntype"
    /\ stages' = Append(stages, "returntype")
    /\ LET e == ReturnTypeErr(introspectedRemoteQuery, metadata.parentField)
       IN  IF e # NilErr THEN Return(e) ELSE pc' = "argmaps" /\ err' = err
    /\ UNCHANGED <<input, locals, pendingKeys, expander, expandedRemoteTypes,
                   lookups, expansions, compared, calls, prevErr>>

\* The calls of getGivenQueryArgsAsMap and getRemoteQueryArgsAsMap; the loop
\* over givenQryArgDefs starts.
GetArgMaps ==
    /\ pc = "argmaps"
    /\ stages' = Append(stages, "givenargs")
    /\ LET given == getGivenQueryArgsAsMap(givenQuery, metadata.parentField,
                                           metadata.parentType)
           rem == getRemoteQueryArgsAsMap(introspectedRemoteQuery)
       IN  /\ givenQryArgDefs' = given.defs
           /\ givenQryArgVals' = given.vals
           /\ remoteQryArgDefs' = rem.defs
           /\ remoteQryRequiredArgs' = rem.required
           /\ pendingKeys' = DOMAIN given.defs
    /\ pc' = "givenargs"
    /\ UNCHANGED <<input, err, remoteQueryTypename, introspectedRemoteQuery, expander,
                   expandedRemoteTypes, lookups, expansions, compared, calls, prevErr>>

\* CheckGivenArgStep going on with the loop where it has to return the error.
CheckGivenArgStepNoReturn ==
    /\ pc = "givenargs"
    /\ \E givenArgName \in pendingKeys : pendingKeys' = pendingKeys \ {givenArgName}
    /\ UNCHANGED <<input, pc, err, locals, expander, expandedRemoteTypes, history, calls,
                   prevErr>>

\* One iteration of the loop over the map givenQryArgDefs.
CheckGivenArgStep ==
    /\ pc = "givenargs"
    /\ \E givenArgName \in pendingKeys :
          LET e == CheckGivenArg(givenArgName)
          IN  IF e # NilErr
              THEN Return(e) /\ pendingKeys' = {}
              ELSE /\ pendingKeys' = pendingKeys \ {givenArgName}
                   /\ UNCHANGED <<pc, err>>
    /\ UNCHANGED <<input, locals, expander, expandedRemoteTypes, history, calls, prevErr>>

\* The loop over remoteQryRequiredArgs, once the loop over givenQryArgDefs
\* is over; then the return type joins remoteQryArgDefs and expandArgs starts
\* with a fresh expandArgParams.
CheckRequiredArgsStep ==
    /\ pc = "givenargs"
    /\ pendingKeys = {}
    /\ stages' = Append(stages, "requiredargs")
    /\ LET e == CheckRequiredArgs(remoteQryRequiredArgs, givenQryArgVals)
       IN  IF e # NilErr
           THEN Return(e) /\ UNCHANGED <<remoteQryArgDefs, pendingKeys>>
           ELSE /\ remoteQryArgDefs' =
                       Put(remoteQryArgDefs, returnType,
                           Arg("", introspectedRemoteQuery.Type, "null"))
                /\ pendingKeys' = DOMAIN remoteQryArgDefs'
                /\ pc' = "expand" /\ err' = err
    /\ expandedTypes' = {}
    /\ typesToFields' = EmptyMap
    /\ stack' = <<>>
    /\ UNCHANGED <<input, remoteQueryTypename, introspectedRemoteQuery, givenQryArgDefs,
                   givenQryArgVals, remoteQryRequiredArgs, expandedRemoteTypes,
                   lookups, expansions, compared, calls, prevErr>>

(***************************************************************************)
(* expandArgs and expandArgRecursively.  A frame of the stack is a call of *)
(* expandArgRecursively: its argument arg, its variable typeFound, the     *)
(* index ti of the loop over the types of the snapshot, the index fi of    *)
(* the loop over the fields or the input fields, and its position at.      *)
(***************************************************************************)
Frame(arg) == [arg |-> arg, at |-> "enter", typeFound |-> FALSE, ti |-> 0, fi |-> 0]
Top == stack[Len(stack)]
Pop == SubSeq(stack, 1, Len(stack) - 1)
SetTop(f) == [stack EXCEPT ![Len(stack)] = f]

\* Whether the loop over the fields of a type follows a field.
FollowsField(field) == field.Type.Name \notin graphqlScalarType
\* Whether the loop over the input fields of a type follows an input field.
FollowsInputField(field) == NamedType(field.Type) \notin graphqlScalarType
\* FollowsSeed with the name of the outermost type in place of the named type.
FollowsSeedByName(typeTobeExpanded) == typeTobeExpanded.Type.Name \notin graphqlScalarType

\* Whether the loop of expandArgs expands a type to be expanded.
FollowsSeed(typeTobeExpanded) == NamedType(typeTobeExpanded.Type) \notin graphqlScalarType

\* One iteration of the loop of expandArgs over the map argToVal.
ExpandSeed ==
    /\ pc = "expand"
    /\ stack = <<>>
    /\ stages' = IF "shape" \in {stages[i] : i \in 1..Len(stages)} THEN stages
                 ELSE Append(stages, "shape")
    /\ \E key \in pendingKeys :
          /\ pendingKeys' = pendingKeys \ {key}
          /\ stack' = IF FollowsSeed(remoteQryArgDefs[key])
                      THEN <<Frame(NamedType(remoteQryArgDefs[key].Type))>>
                      ELSE <<>>
    /\ UNCHANGED <<input, pc, err, locals, expandedTypes, typesToFields,
                   expandedRemoteTypes, lookups, expansions, compared, calls, prevErr>>

\* ExpandEnter without the marking of the type as expanded.
ExpandEnterUnmarked ==
    /\ pc = "expand"
    /\ stack # <<>>
    /\ Top.at = "enter"
    /\ IF Top.arg \in expandedTypes
       THEN stack' = Pop
       ELSE stack' = SetTop([Top EXCEPT !.at = "scan", !.ti = 1])
    /\ UNCHANGED <<input, pc, err, locals, pendingKeys, expandedTypes, typesToFields,
                   expandedRemoteTypes, history, calls, prevErr>>

\* expandArgRecursively is entered: it returns at once for an expanded type,
\* and marks the type as expanded otherwise.
ExpandEnter ==
    /\ pc = "expand"
    /\ stack # <<>>
    /\ Top.at = "enter"
    /\ IF Top.arg \in expandedTypes
       THEN stack' = Pop /\ UNCHANGED expandedTypes
       ELSE /\ expandedTypes' = expandedTypes \cup {Top.arg}
            /\ stack' = SetTop([Top EXCEPT !.at = "scan", !.ti = 1])
    /\ UNCHANGED <<input, pc, err, locals, pendingKeys, typesToFields,
                   expandedRemoteTypes, history, calls, prevErr>>

\* ExpandScan returning nil for a type the snapshot does not define.
ExpandScanLenient ==
    /\ pc = "expand"
    /\ stack # <<>>
    /\ Top.at = "scan"
    /\ lookups' = lookups \cup {Top.arg}
    /\ LET next == {i \in Top.ti..Len(Types) : Types[i].Name = Top.arg}
       IN  IF next # {}
           THEN LET i == CHOOSE i \in next : \A j \in next : i <= j
                IN  /\ typesToFields' = Put(typesToFields, Types[i].Name, Types[i].Fields)
                    /\ stack' = SetTop([Top EXCEPT !.at = "fields", !.typeFound = TRUE,
                                                   !.ti = i, !.fi = 1])
                    /\ expansions' = Append(expansions, Types[i].Name)
                    /\ UNCHANGED <<pc, err, pendingKeys>>
           ELSE /\ stack' = Pop
                /\ UNCHANGED <<pc, err, pendingKeys, typesToFields, expansions>>
    /\ UNCHANGED <<input, locals, expandedTypes, expandedRemoteTypes, stages, compared,
                   calls, prevErr>>

\* The loop over the types of the snapshot goes to the next type named arg
\* and records its fields; when there is none left, the call returns: nil
\* if a type was found, and otherwise an error, which every caller up to
\* validateRemoteGraphql returns in turn.
ExpandScan ==
    /\ pc = "expand"
    /\ stack # <<>>
    /\ Top.at = "scan"
    /\ lookups' = lookups \cup {Top.arg}
    /\ LET next == {i \in Top.ti..Len(Types) : Types[i].Name = Top.arg}
       IN  IF next # {}
           THEN LET i == CHOOSE i \in next : \A j \in next : i <= j
                IN  /\ typesToFields' = Put(typesToFields, Types[i].Name, Types[i].Fields)
                    /\ stack' = SetTop([Top EXCEPT !.at = "fields", !.typeFound = TRUE,
                                                   !.ti = i, !.fi = 1])
                    /\ expansions' = Append(expansions, Types[i].Name)
                    /\ UNCHANGED <<pc, err, pendingKeys>>
           ELSE IF Top.typeFound
           THEN /\ stack' = Pop
                /\ UNCHANGED <<pc, err, pendingKeys, typesToFields, expansions>>
           ELSE /\ Return(Error("RemoteTypeNotFound", "", "", Top.arg, "", "", ""))
                /\ stack' = <<>>
                /\ pendingKeys' = {}
                /\ UNCHANGED <<typesToFields, expansions>>
    /\ UNCHANGED <<input, locals, expandedTypes, expandedRemoteTypes, stages, compared,
                   calls, prevErr>>

\* One iteration of the loop over the fields of the type found, and after
\* the last one the input fields are appended to the fields recorded.
ExpandField ==
    /\ pc = "expand"
    /\ stack # <<>>
    /\ Top.at = "fields"
    /\ LET inputType == Types[Top.ti]
       IN  IF Top.fi <= Len(inputType.Fields)
           THEN LET field == inputType.Fields[Top.fi]
                    here == SetTop([Top EXCEPT !.fi = Top.fi + 1])
                IN  /\ stack' = IF FollowsField(field)
                                THEN Append(here, Frame(NamedType(field.Type)))
                                ELSE here
                    /\ UNCHANGED typesToFields
           ELSE /\ typesToFields' =
                       Put(typesToFields, inputType.Name,
                           typesToFields[inputType.Name] \o inputType.InputFields)
                /\ stack' = SetTop([Top EXCEPT !.at = "inputs", !.fi = 1])
    /\ UNCHANGED <<input, pc, err, locals, pendingKeys, expandedTypes,
                   expandedRemoteTypes, history, calls, prevErr>>

\* One iteration of the loop over the input fields of the type found, and
\* after the last one the loop over the types goes on.
ExpandInputField ==
    /\ pc = "expand"
    /\ stack # <<>>
    /\ Top.at = "inputs"
    /\ LET inputType == Types[Top.ti]
       IN  IF Top.fi <= Len(inputType.InputFields)
           THEN LET field == inputType.InputFields[Top.fi]
                    here == SetTop([Top EXCEPT !.fi = Top.fi + 1])
                IN  stack' = IF FollowsInputField(field)
                             THEN Append(here, Frame(NamedType(field.Type)))
                             ELSE here
           ELSE stack' = SetTop([Top EXCEPT !.at = "scan", !.ti = Top.ti + 1])
    /\ UNCHANGED <<input, pc, err, locals, pendingKeys, expandedTypes, typesToFields,
                   expandedRemoteTypes, history, calls, prevErr>>

\* expandArgs returns param.typesToFields; the loop over the expanded types
\* starts.
ExpandReturn ==
    /\ pc = "expand"
    /\ stack = <<>>
    /\ pendingKeys = {}
    /\ expandedRemoteTypes' = typesToFields
    /\ pendingKeys' = DOMAIN typesToFields
    /\ pc' = "shape"
    /\ UNCHANGED <<input, err, locals, expander, history, calls, prevErr>>

\* One iteration of the loop over the map expandedRemoteTypes.
CheckExpandedTypeStep ==
    /\ pc = "shape"
    /\ \E typeName \in pendingKeys :
          /\ compared' = compared \cup {typeName}
          /\ LET e == CheckExpandedType(typeName, expandedRemoteTypes[typeName])
             IN  IF e # NilErr
                 THEN Return(e) /\ pendingKeys' = {}
                 ELSE /\ pendingKeys' = pendingKeys \ {typeName}
                      /\ UNCHANGED <<pc, err>>
    /\ UNCHANGED <<input, locals, expander, expandedRemoteTypes, stages, lookups,
                   expansions, calls, prevErr>>

\* return nil
ReturnNil ==
    /\ pc = "shape"
    /\ pendingKeys = {}
    /\ Return(NilErr)
    /\ UNCHANGED <<input, locals, pendingKeys, expander, expandedRemoteTypes, history,
                   calls, prevErr>>

(***************************************************************************)
(* The calls.                                                              *)
(***************************************************************************)
\* The state in which validateRemoteGraphql is entered.
Entry ==
    /\ pc = "introspect"
    /\ err = NoErr
    /\ remoteQueryTypename = ""
    /\ introspectedRemoteQuery = NilField
    /\ givenQryArgDefs = EmptyMap
    /\ givenQryArgVals = EmptyMap
    /\ remoteQryArgDefs = EmptyMap
    /\ remoteQryRequiredArgs = <<>>
    /\ pendingKeys = {}
    /\ expandedTypes = {}
    /\ typesToFields = EmptyMap
    /\ stack = <<>>
    /\ expandedRemoteTypes = NilMap
    /\ stages = <<>>
    /\ lookups = {}
    /\ expansions = <<>>
    /\ compared = {}

Init ==
    /\ \E sel \in Selections :
          /\ metadata = MetadataOf(sel)
          /\ remote = RemoteOf(sel)
    /\ Entry
    /\ calls = 1
    /\ prevErr = NoErr

\* validateRemoteGraphql is called again with the same metadata, and the
\* endpoint answers as before.
CallAgain ==
    /\ pc = "done"
    /\ calls < MaxCalls
    /\ calls' = calls + 1
    /\ prevErr' = err
    /\ pc' = "introspect"
    /\ err' = NoErr
    /\ remoteQueryTypename' = ""
    /\ introspectedRemoteQuery' = NilField
    /\ givenQryArgDefs' = EmptyMap
    /\ givenQryArgVals' = EmptyMap
    /\ remoteQryArgDefs' = EmptyMap
    /\ remoteQryRequiredArgs' = <<>>
    /\ pendingKeys' = {}
    /\ expandedTypes' = {}
    /\ typesToFields' = EmptyMap
    /\ stack' = <<>>
    /\ expandedRemoteTypes' = NilMap
    /\ stages' = <<>>
    /\ lookups' = {}
    /\ expansions' = <<>>
    /\ compared' = {}
    /\ UNCHANGED input

Next ==
    \/ Introspect
    \/ ResolveRoot
    \/ LookupField
    \/ CheckReturnType
    \/ GetArgMaps
    \/ CheckGivenArgStep
    \/ CheckRequiredArgsStep
    \/ ExpandSeed
    \/ ExpandEnter
    \/ ExpandScan
    \/ ExpandField
    \/ ExpandInputField
    \/ ExpandReturn
    \/ CheckExpandedTypeStep
    \/ ReturnNil
    \/ CallAgain

Spec == Init /\ [][Next]_vars

\* The call is sequential code: a step that can be taken is taken.
FairSpec == Spec /\ WF_vars(Next)

(***************************************************************************)
(* Properties.  The conditions of the stages are restated here on the      *)
(* inputs of the call (metadata and the answer of the endpoint), not on    *)
(* the variables the call computes.                                        *)
(***************************************************************************)
Done == pc = "done"
Succeeded == Done /\ err = NilErr

\* The stages of validateRemoteGraphql, in their order, and the stage of
\* each kind of error.
StageOrder ==
    <<"introspection", "operation", "lookup", "returntype", "givenargs",
      "requiredargs", "shape">>
StageOfKind ==
    [TransportError |-> 1, UnsupportedOperationKind |-> 2, RemoteFieldNotFound |-> 3,
     ReturnTypeMismatch |-> 4, ArgNotInRemote |-> 5, MissingVariable |-> 5,
     ArgTypeMismatch |-> 5, RequiredArgMissing |-> 6, RemoteTypeNotFound |-> 7,
     LocalTypeNotFound |-> 7, LocalFieldNotFound |-> 7, FieldTypeMismatch |-> 7]
\* The number of stages the call evaluated.
Evaluated == Len(stages)

IsRootParent == metadata.parentType.Name \in {"Query", "Mutation"}
\* The remote root type of the operation, and the remote field of the name
\* of the given query (a field of a type of that name), if there is one.
RootTypeName ==
    IF operationType = "query" THEN remote.Data.Schema.QueryType.Name
    ELSE remote.Data.Schema.MutationType.Name
RemoteFields ==
    { f \in UNION { {Types[i].Fields[j] : j \in 1..Len(Types[i].Fields)} :
                    i \in {k \in 1..Len(Types) : Types[k].Name = RootTypeName} } :
        f.Name = givenQuery.Name }
RemoteField == CHOOSE f \in RemoteFields : TRUE
SelectionArgs == givenQuery.Arguments
SelectionArgNames == {SelectionArgs[i].Name : i \in 1..Len(SelectionArgs)}
RemoteArgs == RemoteField.Args
RemoteArgNames == {RemoteArgs[i].Name : i \in 1..Len(RemoteArgs)}
RemoteArgNamed(n) == CHOOSE a \in {RemoteArgs[i] : i \in 1..Len(RemoteArgs)} : a.Name = n
LocalArgDefs == {metadata.parentField.Arguments[i] :
                    i \in 1..Len(metadata.parentField.Arguments)}
LocalArgNames == {a.Name : a \in LocalArgDefs}
LocalArgNamed(n) == CHOOSE a \in LocalArgDefs : a.Name = n

\* What the check of the i-th argument of the selection finds: the argument
\* is no argument of the remote field, its variable is not declared by the
\* local parent field, or the two types differ.
ArgVerdict(i) ==
    LET a == SelectionArgs[i]
    IN  IF a.Name \notin RemoteArgNames THEN "ArgNotInRemote"
        ELSE IF a.Value.Raw \notin LocalArgNames THEN "MissingVariable"
        ELSE IF GqlTypeString(RemoteArgNamed(a.Name).Type)
                  # AstTypeString(LocalArgNamed(a.Value.Raw).Type) THEN "ArgTypeMismatch"
        ELSE "ok"
\* What an error of that check names.
ArgNamedBy(i) ==
    IF ArgVerdict(i) = "ArgNotInRemote" THEN SelectionArgs[i].Name
    ELSE "$" \o SelectionArgs[i].Value.Raw

\* The conditions under which the first six stages fail.
IntrospectionFails == remote.Err
OperationFails == operationType \notin {"query", "mutation"}
LookupFails == RemoteFields = {}
ReturnTypeFails ==
    GqlTypeString(RemoteField.Type) # AstTypeString(metadata.parentField.Type)
GivenArgsFail ==
    IsRootParent /\ \E i \in 1..Len(SelectionArgs) : ArgVerdict(i) # "ok"
\* (The required arguments are tested against the arguments the call
\* collected from the selection, and it collects them only for a parent type
\* Query or Mutation.)
RequiredArgsFail ==
    \E i \in 1..Len(RemoteArgs) :
        /\ RemoteArgs[i].Type.Kind = "NON_NULL"
        /\ ~(IsRootParent /\ RemoteArgs[i].Name \in SelectionArgNames)
\* The first of the first six stages that fails, and 7 if none of them does.
FirstFailing ==
    IF IntrospectionFails THEN 1
    ELSE IF OperationFails THEN 2
    ELSE IF LookupFails THEN 3
    ELSE IF ReturnTypeFails THEN 4
    ELSE IF GivenArgsFail THEN 5
    ELSE IF RequiredArgsFail THEN 6
    ELSE 7

\* C1: the stages are evaluated in one fixed order (introspection, operation
\* kind, root field lookup, return type, arguments of the selection, required
\* arguments, shape), and the call returns the error of the first stage that
\* fails without evaluating a later stage; it evaluates all seven stages when
\* none of the first six fails.
C1_FirstFailingStage ==
    /\ Evaluated <= Len(StageOrder)
    /\ stages = SubSeq(StageOrder, 1, Evaluated)
    /\ Done =>
        /\ Evaluated = FirstFailing
        /\ err # NilErr => StageOfKind[err.kind] = FirstFailing
        /\ err = NilErr => FirstFailing = 7

\* A call on which the return types differ and a required remote argument is
\* missing has returned the error of the return type stage.
C1_Witness ==
    /\ Done
    /\ ~IntrospectionFails /\ ~OperationFails /\ ~LookupFails
    /\ ReturnTypeFails /\ RequiredArgsFail
    /\ err.kind = "ReturnTypeMismatch"

\* C2 (as amended): when the remote field is found and the canonical string
\* of its return type differs from that of the declared type of the local
\* parent field, the call fails with ReturnTypeMismatch, in which `expected'
\* is the return type of the remote field and `got' the declared type of the
\* local field (local Post against remote [Post]: expected "[Post]", got
\* "Post"); when the strings are equal the stage raises no error.
C2_ReturnTypeMismatch ==
    (Done /\ Evaluated >= 4) =>
        LET remoteString == GqlTypeString(RemoteField.Type)
            localString == AstTypeString(metadata.parentField.Type)
        IN  /\ remoteString # localString =>
                /\ err.kind = "ReturnTypeMismatch"
                /\ err.expected = remoteString
                /\ err.got = localString
            /\ remoteString = localString => err.kind # "ReturnTypeMismatch"
            /\ (RemoteField.Type = ListOf(tPost)
                    /\ metadata.parentField.Type = AstNamed("Post", FALSE)) =>
                (err.expected = "[Post]" /\ err.got = "Post")

\* The call on local Post against remote [Post] has returned.
C2_Witness ==
    /\ Done
    /\ RemoteFields # {}
    /\ RemoteField.Type = ListOf(tPost)
    /\ metadata.parentField.Type = AstNamed("Post", FALSE)
    /\ err.kind = "ReturnTypeMismatch"

\* C2 (as claimed): in the ReturnTypeMismatch, `expected' is the declared
\* type of the local field and `got' the return type of the remote field
\* (local Post against remote [Post]: expected "Post", got "[Post]").
C2_AsClaimed ==
    (Done /\ Evaluated >= 4) =>
        LET remoteString == GqlTypeString(RemoteField.Type)
            localString == AstTypeString(metadata.parentField.Type)
        IN  /\ remoteString # localString =>
                /\ err.kind = "ReturnTypeMismatch"
                /\ err.expected = localString
                /\ err.got = remoteString
            /\ remoteString = localString => err.kind # "ReturnTypeMismatch"

\* C3 (as claimed): given that the earlier stages pass, the call fails with
\* RequiredArgMissing naming an argument if and only if some argument of the
\* remote field has NON_NULL as its outermost kind and is not named by an
\* argument of the selection, and the argument named is such an argument;
\* this for every parent type, and whatever the default values.
C3_RequiredArgMissingIff ==
    (Done /\ Evaluated >= 6) =>
        LET missing == { RemoteArgs[i].Name : i \in
                            {k \in 1..Len(RemoteArgs) :
                                /\ RemoteArgs[k].Type.Kind = "NON_NULL"
                                /\ RemoteArgs[k].Name \notin SelectionArgNames} }
        IN  /\ err.kind = "RequiredArgMissing" <=> missing # {}
            /\ err.kind = "RequiredArgMissing" => err.name \in missing

\* C4: for an operation on a field of Query or Mutation that passed the
\* lookup and the return type check, the check of an argument of the
\* selection fails if no remote argument has its name, otherwise with
\* MissingVariable if its variable is not declared by the local parent
\* field, otherwise with ArgTypeMismatch if the canonical strings of the two
\* types differ; the call returns the error of one of the arguments that
\* fail, and the stage passes only when no argument fails.
C4_GivenArgCheck ==
    (Done /\ IsRootParent /\ Evaluated >= 5) =>
        LET bad == {i \in 1..Len(SelectionArgs) : ArgVerdict(i) # "ok"}
        IN  /\ bad = {} =>
                /\ Evaluated >= 6
                /\ err.kind \notin {"ArgNotInRemote", "MissingVariable", "ArgTypeMismatch"}
            /\ bad # {} =>
                /\ Evaluated = 5
                /\ \E i \in bad : err.kind = ArgVerdict(i) /\ err.name = ArgNamedBy(i)

\* An argument that is no argument of the remote field and whose variable is
\* not declared either has been checked: the first of the three tests decides.
C4_Witness ==
    /\ Done /\ IsRootParent /\ Evaluated = 5
    /\ \E i \in 1..Len(SelectionArgs) :
          /\ SelectionArgs[i].Name \notin RemoteArgNames
          /\ SelectionArgs[i].Value.Raw \notin LocalArgNames
          /\ err.kind = "ArgNotInRemote"
          /\ err.name = SelectionArgs[i].Name

\* The types of the remote snapshot reachable from the return type and the
\* argument types of the remote field, by following the fields and the input
\* fields whose named type is not a scalar.
SnapshotNames == {Types[i].Name : i \in 1..Len(Types)}
SnapshotDef(n) == Types[CHOOSE i \in 1..Len(Types) : Types[i].Name = n]
MemberFields(n) ==
    LET def == SnapshotDef(n)
    IN  {def.Fields[i] : i \in 1..Len(def.Fields)}
            \cup {def.InputFields[i] : i \in 1..Len(def.InputFields)}
NonScalar(names) == names \ graphqlScalarType
Followed(n) ==
    IF n \in SnapshotNames THEN NonScalar({NamedType(f.Type) : f \in MemberFields(n)})
    ELSE {}
RECURSIVE Closure(_)
Closure(names) ==
    LET more == names \cup UNION {Followed(n) : n \in names}
    IN  IF more = names THEN names ELSE Closure(more)
SeedNames ==
    NonScalar({NamedType(RemoteField.Type)}
                \cup {NamedType(RemoteArgs[i].Type) : i \in 1..Len(RemoteArgs)})
Reachable == Closure(SeedNames)

\* Whether the local schema mirrors a field of a remote type.
Mirrored(n, f) ==
    LET fields == metadata.schema.Types[n].Fields
    IN  \E i \in 1..Len(fields) :
            /\ fields[i].Name = f.Name
            /\ AstTypeString(fields[i].Type) = GqlTypeString(f.Type)

\* C5: the call succeeds only if every type reachable in the remote snapshot
\* from the return type and the argument types of the remote field exists
\* under its name in the local schema, with every field and input field of
\* the remote type a field of the local type of the same canonical type
\* string; a failure of the shape check is LocalTypeNotFound for a type the
\* local schema lacks, LocalFieldNotFound for a field the local type lacks,
\* FieldTypeMismatch for a field of another type string.
C5_ShapeMirrored ==
    /\ Succeeded =>
          \A n \in Reachable :
              /\ n \in SnapshotNames
              /\ n \in DOMAIN metadata.schema.Types
              /\ \A f \in MemberFields(n) : Mirrored(n, f)
    /\ (Done /\ err.kind = "LocalTypeNotFound") =>
          err.type \notin DOMAIN metadata.schema.Types
    /\ (Done /\ err.kind = "LocalFieldNotFound") =>
          LET fields == metadata.schema.Types[err.type].Fields
          IN  /\ err.name \in {f.Name : f \in MemberFields(err.type)}
              /\ \A i \in 1..Len(fields) : fields[i].Name # err.name
    /\ (Done /\ err.kind = "FieldTypeMismatch") =>
          \E f \in MemberFields(err.type) :
              /\ f.Name = err.name
              /\ ForName(metadata.schema.Types[err.type].Fields, f.Name) # NilFieldDef
              /\ ~Mirrored(err.type, f)

\* A call has succeeded on a remote field from which object types and input
\* types are reachable, some of them through other types.
C5_Witness ==
    /\ Succeeded
    /\ {"Post", "Author", "PostFilter", "AuthorFilter"} \subseteq Reachable

\* Whether the return type of the remote field is a scalar, and whether the
\* types of all its arguments are.
ScalarReturn == NamedType(RemoteField.Type) \in graphqlScalarType
ScalarArgs == \A i \in 1..Len(RemoteArgs) : NamedType(RemoteArgs[i].Type) \in graphqlScalarType

\* C6 (as amended): when the return type of the remote field is a scalar and
\* the named type of every argument of the remote field is a scalar too, and
\* the return type check and the argument checks pass, the shape check
\* expands no type (the map of expanded types is empty, no type is searched
\* for in the snapshot) and the call succeeds.
C6_ScalarNoExpansion ==
    (Done /\ Evaluated = 7 /\ ScalarReturn /\ ScalarArgs) =>
        /\ err = NilErr
        /\ DOMAIN expandedRemoteTypes = {}
        /\ lookups = {}
        /\ expansions = <<>>

\* A call on a remote field of a wrapped scalar type with a scalar argument
\* has passed the shape check.
C6_Witness ==
    /\ Succeeded
    /\ RemoteField.Type.Kind = "NON_NULL" /\ ScalarReturn
    /\ Len(RemoteArgs) >= 1 /\ ScalarArgs

\* C6 (as claimed): when the return type of the remote field is a scalar and
\* the return type check and the argument checks pass, the shape check
\* expands no type and the call succeeds, whatever arguments the remote field
\* declares.
C6_AsClaimed ==
    (Done /\ Evaluated = 7 /\ ScalarReturn) =>
        /\ err = NilErr
        /\ DOMAIN expandedRemoteTypes = {}
        /\ lookups = {}
        /\ expansions = <<>>

\* A call of expandArgRecursively for a type that is already expanded.
Revisit ==
    /\ pc = "expand"
    /\ stack # <<>>
    /\ Top.at = "enter"
    /\ Top.arg \in expandedTypes
\* No type definition is expanded twice by one call of expandArgs.
ExpandedOnce ==
    \A i, j \in 1..Len(expansions) : expansions[i] = expansions[j] => i = j
\* The type of every call of expandArgRecursively that is past its entry (it
\* searches the snapshot, or follows the fields of the type) is marked as
\* expanded.
MarkedBeforeFollowed ==
    \A i \in 1..Len(stack) : stack[i].at # "enter" => stack[i].arg \in expandedTypes

\* C7: expandArgs terminates, also on self-referential and mutually recursive
\* types; no type is expanded twice by one call; a type is marked as expanded
\* before any of its fields is followed; a call for a type already expanded
\* returns at once, without an error and without changing the map.
C7_ExpansionTerminates ==
    /\ [](ExpandedOnce /\ MarkedBeforeFollowed)
    /\ [][Revisit => /\ stack' = Pop
                     /\ typesToFields' = typesToFields
                     /\ expandedTypes' = expandedTypes
                     /\ err' = err /\ pc' = pc]_vars
    /\ (pc = "expand") ~> (pc # "expand")

\* expandArgRecursively is entered for the type whose field it follows (a
\* self-referential type).
C7_Witness ==
    /\ Revisit
    /\ Len(stack) >= 2
    /\ stack[Len(stack) - 1].arg = Top.arg

\* The reachable type names that the snapshot does not define.
MissingReachable == Reachable \ SnapshotNames

\* C8: if the type of a non-scalar seed, or the named type of a field or an
\* input field reached by the expansion, is not defined in the snapshot,
\* expandArgs ends with RemoteTypeNotFound naming a type the snapshot does
\* not define and returns no map, and validateRemoteGraphql returns that
\* error without comparing anything against the local schema.
C8_RemoteTypeNotFound ==
    /\ (Done /\ Evaluated = 7 /\ MissingReachable # {}) =>
          /\ err.kind = "RemoteTypeNotFound"
          /\ err.type \in MissingReachable \cup (graphqlScalarType \ SnapshotNames)
    /\ (Done /\ err.kind = "RemoteTypeNotFound") =>
          /\ err.type \notin SnapshotNames
          /\ expandedRemoteTypes = NilMap
          /\ compared = {}

\* The expansion has ended on the type of a field that the snapshot does not
\* define, with other types already recorded in the map.
C8_Witness ==
    /\ Done
    /\ err.kind = "RemoteTypeNotFound" /\ err.type = "Author"
    /\ MissingReachable = {"Author"}
    /\ "Post" \in DOMAIN typesToFields

\* C9 (as claimed): the expansion stops at scalars whatever wraps them: no
\* scalar is searched for in the snapshot, none is a key of the map of
\* expanded types, and RemoteTypeNotFound never names one; for fields as for
\* input fields.
C9_ScalarsNotExpanded ==
    /\ lookups \cap graphqlScalarType = {}
    /\ (DOMAIN typesToFields) \cap graphqlScalarType = {}
    /\ (Done /\ err.kind = "RemoteTypeNotFound") => err.type \notin graphqlScalarType

\* C10 (as claimed): two calls with the same metadata and the same answer of
\* the endpoint return the same: the same error, naming the same argument,
\* type and field, or nil both.
C10_Deterministic ==
    (Done /\ calls >= 2) => err = prevErr

=============================================================================
